---------------------------- MODULE Spec2Model ----------------------------
(***************************************************************************)
(* Model of the eventa message-delivery core: the NatsSubscriber consumer  *)
(* loops (app/ext/nats_subscriber.py), the lifespan that starts and stops  *)
(* them (app/main.py) and the broker/transport they talk to.               *)
(*                                                                         *)
(* Every consumer loop is an asyncio task.  A task only loses control at   *)
(* an await, so the position of a loop is the await it is suspended at:    *)
(* "pull" (subscription.messages.get()), "ack", "nak" or "term".  The code *)
(* between two awaits runs atomically and is one action.                   *)
(***************************************************************************)
EXTENDS Integers, Sequences, FiniteSets, TLC

(***************************************************************************)
(* Bounds of the model.                                                    *)
(***************************************************************************)
NumSubs == 2                \* registry entries of the startup/shutdown runs
MaxRegistryDeliveries == 1  \* deliveries made in the startup/shutdown runs
MaxDeliveries == 3          \* deliveries made in the runs of the shipped registry
MaxServingDeliveries == 2   \* deliveries made in the runs of the serving loops
MaxPublishes == 2           \* publish_event calls made in the publisher runs
MaxRoundTrips == 2          \* envelopes published and decoded in the codec runs
MaxRows == 2                \* rows written in the runs of the events table
MaxLiveMessages == 2        \* messages published in the runs under fairness
MaxFailures == 1            \* attempts that fail in the runs under fairness
MaxDisposedDeliveries == 3  \* deliveries made in the runs of the dispositions

\* EVENT_SUBSCRIPTIONS as shipped holds one entry
ShippedRegistrySize == 1

Subs == 1..NumSubs

(***************************************************************************)
(* Time values.  A datetime of the program is its wall-clock reading       *)
(* (local) and its zone (tz): "naive" for none, "UTC", or a fixed offset.  *)
(* On the wire a time is an ISO-8601 text: the wall-clock reading (iso)    *)
(* followed by the offset text, "Z" for UTC and nothing for a naive one.   *)
(* model_dump(mode="json") formats a datetime, Event.model_validate parses *)
(* the text back.                                                          *)
(***************************************************************************)
Zones == {"naive", "UTC", "+02:00"}

FormatTime_DropsOffset(dt) == [iso |-> dt.local, offset |-> ""]

FormatTime(dt) ==
    [iso |-> dt.local,
     offset |-> IF dt.tz = "naive" THEN "" ELSE IF dt.tz = "UTC" THEN "Z" ELSE dt.tz]

ParseTime(text) ==
    [local |-> text.iso,
     tz |-> IF text.offset = "" THEN "naive"
            ELSE IF text.offset = "Z" THEN "UTC" ELSE text.offset]

(***************************************************************************)
(* Wire payloads.  A payload is the byte string of one broker message:     *)
(* json says whether it is a well-formed JSON document, obj is the decoded *)
(* JSON object.                                                            *)
(***************************************************************************)
RequiredFields ==
    {"source", "spec_version", "event_type", "data_content_type", "subject", "time"}

EventFields == RequiredFields \cup {"tags", "labels"}

GoodObj ==
    [source |-> "identies", spec_version |-> "1.0", event_type |-> "user.created",
     data_content_type |-> "application/json", subject |-> "linden.account.created",
     time |-> [iso |-> 0, offset |-> "Z"], tags |-> <<"signup">>,
     trace_id |-> "abc"]

MissingObj ==
    [source |-> "identies", spec_version |-> "1.0", event_type |-> "user.created",
     subject |-> "linden.account.created"]

Payloads ==
    { [json |-> TRUE, obj |-> GoodObj],
      [json |-> TRUE, obj |-> MissingObj],
      [json |-> FALSE, obj |-> [raw |-> "\\xff not json"]] }

(***************************************************************************)
(* decode: msgspec JSON decode followed by Event.model_validate.  It fails *)
(* on a byte string that is not JSON or that lacks a required field, it    *)
(* drops the fields the Event schema does not know, and it parses the time *)
(* text into a datetime.                                                   *)
(***************************************************************************)
Decode(p) ==
    IF ~p.json
        THEN [ok |-> FALSE, event |-> [f \in {} |-> ""]]
        ELSE IF ~(RequiredFields \subseteq DOMAIN p.obj)
            THEN [ok |-> FALSE, event |-> [f \in {} |-> ""]]
            ELSE [ok |-> TRUE,
                  event |-> [f \in (DOMAIN p.obj \cap EventFields) |->
                                IF f = "time" THEN ParseTime(p.obj[f]) ELSE p.obj[f]]]

(***************************************************************************)
(* encode, as _publish_async does it: event.model_dump(mode="json") turns  *)
(* the envelope into JSON-compatible values (the datetime into its text),  *)
(* and the msgspec encoder makes the JSON document of that object.         *)
(***************************************************************************)
ModelDump(e) == [f \in DOMAIN e |-> IF f = "time" THEN FormatTime(e[f]) ELSE e[f]]

Encode(e) == [json |-> TRUE, obj |-> ModelDump(e)]

(***************************************************************************)
(* handle_event and EventService.create_event.  The handler has no await:  *)
(* it runs from its call to its return or raise in one stretch.  fault is   *)
(* the call that raises in this execution: "build" (the EventCreate or the *)
(* Event constructor), "add", "commit", "refresh", or "none".  The         *)
(* result says whether the handler raised, how many rows the execution     *)
(* left committed in the events table, and what it did with its session.   *)
(* A commit that raises commits nothing; a refresh runs after the commit.  *)
(***************************************************************************)
HandlerFaults == {"none", "build", "add", "commit", "refresh"}

HandleEvent_PersistsTwice(event, fault) ==
    [raised |-> fault # "none",
     rows |-> IF fault \in {"none", "refresh"} THEN 2 ELSE 0,
     rolledBack |-> fault # "none",
     closed |-> TRUE]

HandleEvent(event, fault) ==
    [raised |-> fault # "none",
     rows |-> IF fault \in {"none", "refresh"} THEN 1 ELSE 0,
     rolledBack |-> fault # "none",
     closed |-> TRUE]

(***************************************************************************)
(* _process_message, the part that runs before its first await: the await  *)
(* it issues for a message given whether the payload decoded, whether the  *)
(* handler returned without raising, and the subscription's auto_ack.      *)
(* "pull" means that no ack/nak/term is issued and the loop pulls again.   *)
(***************************************************************************)
FirstAwait_TermBecomesNak(decoded, handlerOk, auto_ack) ==
    IF ~decoded THEN "nak"
    ELSE IF ~handlerOk THEN "nak"
    ELSE IF auto_ack THEN "ack" ELSE "pull"

FirstAwait_FailureAcked(decoded, handlerOk, auto_ack) ==
    IF ~decoded THEN "term"
    ELSE IF auto_ack THEN "ack"
    ELSE IF ~handlerOk THEN "nak" ELSE "pull"

FirstAwait_NeverAcks(decoded, handlerOk, auto_ack) ==
    IF ~decoded THEN "term"
    ELSE IF ~handlerOk THEN "nak"
    ELSE "pull"

FirstAwait_FailureTermed(decoded, handlerOk, auto_ack) ==
    IF ~decoded THEN "term"
    ELSE IF ~handlerOk THEN "term"
    ELSE IF auto_ack THEN "ack" ELSE "pull"

FirstAwait_IgnoresAutoAck(decoded, handlerOk, auto_ack) ==
    IF ~decoded THEN "term"
    ELSE IF ~handlerOk THEN "nak"
    ELSE "ack"

FirstAwait(decoded, handlerOk, auto_ack) ==
    IF ~decoded THEN "term"
    ELSE IF ~handlerOk THEN "nak"
    ELSE IF auto_ack THEN "ack" ELSE "pull"

(***************************************************************************)
(* _process_message after an await that raised an Exception: a failed      *)
(* ack() is caught by the handler's except clause and answered by nak();   *)
(* a failed nak() or term() is swallowed.  "raise" would mean that the     *)
(* exception leaves _process_message.                                      *)
(***************************************************************************)
AfterFailedAwait_TermEscapes(at) ==
    IF at = "ack" THEN "nak" ELSE IF at = "term" THEN "raise" ELSE "pull"

AfterFailedAwait(at) ==
    IF at = "ack" THEN "nak" ELSE "pull"

(***************************************************************************)
(* _message_loop: what the loop does with a CancelledError raised at one   *)
(* of its awaits.  CancelledError is not an Exception, so no except clause *)
(* of _process_message catches it; the loop logs and re-raises it.         *)
(***************************************************************************)
OnCancelledError_Swallowed == "FAILED"

OnCancelledError == "CANCELLED"

(***************************************************************************)
(* messages.get(): the message the pull returns from a pending queue.      *)
(***************************************************************************)
NextMessage_Newest(q) == q[Len(q)]

NextMessage(q) == Head(q)

RemoveAt(q, i) == [k \in 1..(Len(q) - 1) |-> IF k < i THEN q[k] ELSE q[k + 1]]

IndexOf(q, x) == CHOOSE i \in 1..Len(q) : q[i] = x

(***************************************************************************)
(* lifespan: what the startup loop does when subscribe() raises for one    *)
(* registry entry: the inner except logs it and the for loop goes on.      *)
(***************************************************************************)
OnSubscribeError_Propagates == "abort"

OnSubscribeError == "continue"

(***************************************************************************)
(* close(): what the unsubscribe loop does when unsubscribe() raises.      *)
(***************************************************************************)
OnUnsubscribeError_Propagates == "raise"

OnUnsubscribeError == "swallow"

VARIABLES
    \* ---- NatsSubscriber fields
    nc,             \* self._nc: 0 (None) or the id of the cached connection
    js,             \* self._js: 0 (None) or the connection of the JetStream context
    tasks,          \* self._tasks: the set of loop tasks
    subscriptions,  \* self._subscriptions: the list of subscriptions
    \* ---- the lifespan (app/main.py)
    lpc,            \* "init", "startup", "serving", "stopped"
    hasSubscriber,  \* the lifespan's subscriber variable is not None
    call,           \* per registry entry: the state of its subscribe() call,
                    \* and the JetStream context it read after _ensure_conn
    \* ---- close()
    cpc,            \* "idle", "gather", "unsub", "connclose"
    gathered,       \* the tasks close() waits for in asyncio.gather
    unsubIdx,       \* position of the for loop over self._subscriptions
    closeConn,      \* the connection close() is awaiting nc.close() of (0: none)
    closeResult,    \* how the last finished close() ended: "none" (no close()
                    \* has ended), "ok", or the call that raised: "unsubscribe",
                    \* "connclose"
    \* ---- consumer loop tasks, one per subscription
    loopState,      \* "NONE", "RUNNING", "CANCELLED", "FAILED"
    loopPc,         \* the await the task is suspended at
    cur,            \* the delivery being processed (0: none)
    autoAck,        \* the auto_ack argument of the loop
    cancelRequested,\* task.cancel() was called and not yet delivered
    cancelSeen,     \* a CancelledError was raised inside the task
    \* ---- transport and broker
    conns,          \* number of connections established so far
    connClosed,     \* per connection: the number of nc.close() calls that completed
    subState,       \* broker side of a subscription: "none", "active", "unsubscribed"
    subConn,        \* the connection a subscription was made on
    unsubCalls,     \* unsubscribe() calls per subscription
    queue,          \* pending queue of each subscription (delivery ids)
    deliveries,     \* every delivery made so far, by id
    handled,        \* per subscription: the handler invocations, in order
    \* ---- NatsPublisher and the stream it publishes to
    pubNc,          \* self._nc: 0 (None) or the id of the cached connection
    pubJs,          \* self._js: 0 (None) or the connection of the JetStream context
    pubCalls,       \* per publish_event call: its position and its outcome
    pubClose,       \* close(): its position and how the last call ended
    pubConns,       \* number of connections the publisher established so far
    pubConnClosed,  \* per connection: the number of nc.close() calls that completed
    pubSeq,         \* last sequence number the stream assigned
    \* ---- envelopes on their way, the events table and the query API
    wire,           \* the envelopes published and decoded so far, in order
    table,          \* the rows of the events table, in the order of their commit
    response        \* the last GET /events request and its response

subscriberVars == <<nc, js, tasks, subscriptions>>
lifespanVars == <<lpc, hasSubscriber, call>>
closeVars == <<cpc, gathered, unsubIdx, closeConn, closeResult>>
loopVars == <<loopState, loopPc, cur, autoAck, cancelRequested, cancelSeen>>
connVars == <<conns, connClosed>>
brokerVars == <<subState, subConn, unsubCalls, queue, deliveries, handled>>

publisherVars ==
    <<pubNc, pubJs, pubCalls, pubClose, pubConns, pubConnClosed, pubSeq>>

consumerVars ==
    <<subscriberVars, lifespanVars, closeVars, loopVars, connVars, brokerVars>>

storeVars == <<wire, table, response>>

vars == <<consumerVars, publisherVars, storeVars>>


(***************************************************************************)
(* NatsPublisher (app/ext/nats_publisher.py).  A publish_event call runs   *)
(* _publish_async either to completion in the caller (asyncio.run, mode    *)
(* "run") or as a background task with _log_task_exception as its done     *)
(* callback (mode "task").  The coroutine is suspended at "connect"        *)
(* (nats.connect in _ensure_conn) or at "publish" (js.publish).            *)
(***************************************************************************)
Publishes == 1..MaxPublishes

StreamName == "EVENTS"

\* the errors _publish_async catches, logs and re-raises
LoggedErrors ==
    {"NoServersError", "ConnectionClosedError", "TimeoutError", "APIError",
     "NoStreamResponseError"}

\* what nats.connect can raise, and what js.publish can raise
ConnectErrors == {"NoServersError", "OSError"}

PublishErrors ==
    {"ConnectionClosedError", "TimeoutError", "APIError", "NoStreamResponseError"}

NoAck == [stream |-> "", seq |-> 0]

\* _ensure_conn: whether it connects, given the cached connection and what
\* its is_connected says
EnsureConnConnects_Always(cached, is_connected) == TRUE

EnsureConnConnects(cached, is_connected) == ~(cached # 0 /\ is_connected)

\* _publish_async up to its first await, for a subject that is empty or not,
\* an event that encodes or not, and the outcome of _ensure_conn's test:
\* the error it raises, or the await it reaches
FirstPublishStep_ChecksSubjectLate(subjectOk, encodes, connects) ==
    IF ~encodes THEN [to |-> "raise", error |-> "EncodeError", encoded |-> FALSE]
    ELSE IF connects THEN [to |-> "connect", error |-> "none", encoded |-> TRUE]
    ELSE IF ~subjectOk
        THEN [to |-> "raise", error |-> "ValueError", encoded |-> TRUE]
    ELSE [to |-> "publish", error |-> "none", encoded |-> TRUE]

FirstPublishStep(subjectOk, encodes, connects) ==
    IF ~subjectOk THEN [to |-> "raise", error |-> "ValueError", encoded |-> FALSE]
    ELSE IF ~encodes
        THEN [to |-> "raise", error |-> "EncodeError", encoded |-> FALSE]
    ELSE IF connects THEN [to |-> "connect", error |-> "none", encoded |-> TRUE]
    ELSE [to |-> "publish", error |-> "none", encoded |-> TRUE]

\* _publish_async once js.publish has returned ack (NoAck: a falsy value) for
\* an event that has a type attribute or not: the error it raises
AfterPubAck(ack, hasType) ==
    IF ack = NoAck THEN "RuntimeError"
    ELSE IF ~hasType THEN "AttributeError"
    ELSE "none"

\* the value a publish that raised nothing hands to its caller: neither
\* _publish_async nor publish_event has a return statement with a value
PublishResult(ack) == "None"

\* _log_task_exception, the done callback of a background publish: whether it
\* logs, for the error the task ended with
ObserverLogs_Swallows(error) == FALSE

ObserverLogs(error) == error # "none"

PublisherConstructed ==
    /\ pubNc = 0
    /\ pubJs = 0
    /\ pubCalls = [c \in Publishes |->
            [st |-> "todo", mode |-> "run", subjectOk |-> TRUE,
             healthy |-> FALSE, encoded |-> FALSE, sent |-> FALSE,
             ack |-> NoAck, error |-> "none", logged |-> FALSE, raised |-> FALSE,
             observed |-> FALSE, result |-> "none"]]
    /\ pubClose = [st |-> "idle", conn |-> 0, last |-> "none"]
    /\ pubConns = 0
    /\ pubConnClosed = [c \in Publishes |-> 0]
    /\ pubSeq = 0

\* the end of a publish_event call whose coroutine raised error ("none": it
\* returned): the except clause of _publish_async, then asyncio.run in the
\* caller or the done callback of the task
PublishEnds(rec, error, inTry) ==
    [rec EXCEPT !.st = "done",
                !.healthy = FALSE,
                !.error = error,
                !.logged = inTry /\ error \in LoggedErrors,
                !.raised = rec.mode = "run" /\ error # "none",
                !.observed = rec.mode = "task" /\ ObserverLogs(error),
                !.result = IF error = "none" THEN PublishResult(rec.ack) ELSE "none"]

\* publish_event(subject, event) is called and _publish_async runs to its
\* first await
PublishEvent(c) ==
    /\ pubCalls[c].st = "todo"
    /\ \A b \in Publishes : b < c => pubCalls[b].st # "todo"
    /\ \E mode \in {"run", "task"}, subjectOk, encodes, is_connected \in BOOLEAN :
        LET connects == EnsureConnConnects(pubNc, is_connected)
            step == FirstPublishStep(subjectOk, encodes, connects)
            rec == [pubCalls[c] EXCEPT !.mode = mode,
                                       !.subjectOk = subjectOk,
                                       !.healthy = pubNc # 0 /\ is_connected,
                                       !.encoded = step.encoded,
                                       !.sent = step.to = "publish"]
        IN pubCalls' = [pubCalls EXCEPT ![c] =
                IF step.to = "raise" THEN PublishEnds(rec, step.error, FALSE)
                ELSE [rec EXCEPT !.st = step.to]]
    /\ UNCHANGED <<pubNc, pubJs, pubClose, pubConns, pubConnClosed, pubSeq>>
    /\ UNCHANGED <<consumerVars, storeVars>>

\* nats.connect returns or raises in _ensure_conn
PublishConnectReturn(c) ==
    /\ pubCalls[c].st = "connect"
    /\ \E error \in {"none"} \cup ConnectErrors :
        IF error = "none"
            THEN /\ pubConns' = pubConns + 1
                 /\ pubNc' = pubConns + 1
                 /\ pubJs' = pubConns + 1
                 /\ pubCalls' = [pubCalls EXCEPT ![c] =
                        [@ EXCEPT !.st = "publish", !.sent = TRUE]]
            ELSE /\ pubCalls' = [pubCalls EXCEPT ![c] = PublishEnds(@, error, TRUE)]
                 /\ UNCHANGED <<pubConns, pubNc, pubJs>>
    /\ UNCHANGED <<pubClose, pubConnClosed, pubSeq>>
    /\ UNCHANGED <<consumerVars, storeVars>>

\* js.publish returns a PubAck or a falsy value, or raises
PublishReturn(c) ==
    /\ pubCalls[c].st = "publish"
    /\ \E out \in {"ack", "noack"} \cup PublishErrors, hasType \in BOOLEAN :
        LET ack == IF out = "ack"
                    THEN [stream |-> StreamName, seq |-> pubSeq + 1]
                    ELSE NoAck
            error == IF out \in PublishErrors THEN out
                     ELSE AfterPubAck(ack, hasType)
        IN /\ pubSeq' = IF out = "ack" THEN pubSeq + 1 ELSE pubSeq
           /\ pubCalls' = [pubCalls EXCEPT ![c] =
                    PublishEnds([@ EXCEPT !.ack = ack], error, TRUE)]
    /\ UNCHANGED <<pubNc, pubJs, pubClose, pubConns, pubConnClosed>>
    /\ UNCHANGED <<consumerVars, storeVars>>

\* NatsPublisher.close() is called: a no-op without a cached connection
PublisherCloseBegin ==
    /\ pubClose.st = "idle"
    /\ pubClose' = IF pubNc = 0
                    THEN [st |-> "idle", conn |-> 0, last |-> "noop"]
                    ELSE [st |-> "closing", conn |-> pubNc, last |-> pubClose.last]
    /\ UNCHANGED <<pubNc, pubJs, pubCalls, pubConns, pubConnClosed, pubSeq>>
    /\ UNCHANGED <<consumerVars, storeVars>>

\* self._nc and self._js once nc.close() has returned in close()
CachedAfterClose_Kept == pubNc

CachedAfterClose == 0

\* nc.close() returns or raises in close()
PublisherCloseReturn ==
    /\ pubClose.st = "closing"
    /\ \E ok \in BOOLEAN :
        IF ok
            THEN /\ pubConnClosed' = [pubConnClosed EXCEPT ![pubClose.conn] = @ + 1]
                 /\ pubNc' = CachedAfterClose
                 /\ pubJs' = CachedAfterClose
                 /\ pubClose' = [st |-> "idle", conn |-> 0, last |-> "closed"]
            ELSE /\ pubClose' = [st |-> "idle", conn |-> 0, last |-> "raised"]
                 /\ UNCHANGED <<pubConnClosed, pubNc, pubJs>>
    /\ UNCHANGED <<pubCalls, pubConns, pubSeq>>
    /\ UNCHANGED <<consumerVars, storeVars>>

NextPublisher ==
    \/ \E c \in Publishes : PublishEvent(c)
    \/ \E c \in Publishes : PublishConnectReturn(c)
    \/ \E c \in Publishes : PublishReturn(c)
    \/ PublisherCloseBegin
    \/ PublisherCloseReturn

(***************************************************************************)
(* The envelope on its way from a publisher to a consumer loop: the bytes  *)
(* _publish_async makes of an envelope, and what _process_message decodes  *)
(* from them.                                                              *)
(***************************************************************************)
Range(q) == {q[k] : k \in 1..Len(q)}

NoLabels == {}

\* the envelopes a publisher is given: every required field has a value
Envelopes ==
    [source : {"identies"}, spec_version : {"1.0"},
     event_type : {"user.created", "user.deleted"},
     data_content_type : {"application/json"},
     subject : {"linden.account.created"},
     time : [local : {0, 1}, tz : Zones],
     tags : {<<>>, <<"signup">>},
     labels : {NoLabels, {<<"category", "news">>}}]

StoreEmpty ==
    /\ wire = <<>>
    /\ table = <<>>
    /\ response = [status |-> 0]

\* an envelope is published and the bytes are decoded by a consumer loop
PublishedEnvelopeDecoded(e) ==
    /\ Len(wire) < MaxRoundTrips
    /\ LET payload == Encode(e) IN
        wire' = Append(wire, [sent |-> e, payload |-> payload,
                              received |-> Decode(payload)])
    /\ UNCHANGED <<table, response>>
    /\ UNCHANGED <<consumerVars, publisherVars>>

NextCodec == \E e \in Envelopes : PublishedEnvelopeDecoded(e)

(***************************************************************************)
(* The events table and the two ingestion paths that write to it:          *)
(* handle_event, called by the consumer loop with a decoded Event, and the *)
(* FastStream subscriber of run_nats_worker.py, called with the decoded    *)
(* JSON object of a message.  A row is the model columns of one event.     *)
(***************************************************************************)
Columns ==
    {"source", "spec_version", "event_type", "data_content_type", "subject"}

\* handle_event: the columns of the row are copied from the Event
RowOfEvent(event) ==
    [via |-> "handle_event",
     source |-> event.source,
     spec_version |-> event.spec_version,
     event_type |-> event.event_type,
     data_content_type |-> event.data_content_type,
     subject |-> event.subject,
     tags |-> IF "tags" \in DOMAIN event THEN event.tags ELSE <<>>,
     labels |-> IF "labels" \in DOMAIN event THEN event.labels ELSE NoLabels]

\* msg.get(key, default) of the worker's handler
Get(msg, key, default) == IF key \in DOMAIN msg THEN msg[key] ELSE default

\* the worker's handler: a missing key is replaced by its default
RowOfMessage(msg) ==
    [via |-> "run_nats_worker",
     source |-> Get(msg, "source", ""),
     spec_version |-> Get(msg, "spec_version", "1.0"),
     event_type |-> Get(msg, "event_type", ""),
     data_content_type |-> Get(msg, "data_content_type", "application/json"),
     subject |-> Get(msg, "subject", ""),
     tags |-> Get(msg, "tags", <<>>),
     labels |-> Get(msg, "labels", NoLabels)]

\* the envelopes whose bytes reach handle_event in the runs of the table
StoredEnvelopes ==
    [source : {"identies", ""}, spec_version : {"1.0"},
     event_type : {"user.created"},
     data_content_type : {"application/json"},
     subject : {"linden.account.created"},
     time : {[local |-> 0, tz |-> "UTC"]},
     tags : {<<"alpha", "beta">>, <<"beta", "gamma">>},
     labels : {NoLabels, {<<"category", "news">>}}]

IngestPayloads == Payloads \cup {Encode(e) : e \in StoredEnvelopes}

\* the JSON objects the worker's handler is called with
WorkerMessages ==
    { GoodObj,
      [spec_version |-> "1.0", event_type |-> "user.created"],
      [tags |-> <<"alpha">>] }

\* a message reaches handle_event through _process_message: a payload that
\* does not decode is terminated there and writes nothing
HandleEventCommits(p) ==
    /\ Len(table) < MaxRows
    /\ LET dec == Decode(p) IN
        table' = IF dec.ok /\ ~HandleEvent(dec.event, "none").raised
                    THEN Append(table, RowOfEvent(dec.event))
                    ELSE table
    /\ UNCHANGED <<wire, response>>
    /\ UNCHANGED <<consumerVars, publisherVars>>

\* a message reaches the handler of run_nats_worker.py; fetch_user runs
\* after the commit of create_event and cannot undo it
WorkerHandler(msg) ==
    /\ Len(table) < MaxRows
    /\ table' = Append(table, RowOfMessage(msg))
    /\ UNCHANGED <<wire, response>>
    /\ UNCHANGED <<consumerVars, publisherVars>>

(***************************************************************************)
(* GET /events (app/routers/event.py list_events) and the query of         *)
(* EventService it calls.  A request is its three query parameters:        *)
(* user_id (0: not given), tags (given or not, and the values) and labels  *)
(* (the kind of text it carries, and the object it denotes if it is one).  *)
(***************************************************************************)
TagParams ==
    { [given |-> FALSE, values |-> <<>>],
      [given |-> TRUE, values |-> <<>>],
      [given |-> TRUE, values |-> <<"alpha">>],
      [given |-> TRUE, values |-> <<"alpha", "beta">>] }

\* labels: not given, the empty string, a text that is not JSON, a JSON
\* document that is no object, or a JSON object
LabelParams ==
    { [kind |-> "absent", object |-> NoLabels],
      [kind |-> "empty", object |-> NoLabels],
      [kind |-> "malformed", object |-> NoLabels],
      [kind |-> "array", object |-> NoLabels],
      [kind |-> "object", object |-> NoLabels],
      [kind |-> "object", object |-> {<<"category", "news">>}] }

\* truthiness of the parameters, as `if user_id`, `if tags`, `if labels` see it
HasUser(user_id) == user_id # 0

HasTags(tags) == tags.given /\ Len(tags.values) > 0

\* the two tests at the head of list_events
FilterMode_UserWins(hasUser, hasTags) ==
    IF hasUser THEN "user_id"
    ELSE IF ~hasTags THEN "neither"
    ELSE "tags"

FilterMode(hasUser, hasTags) ==
    IF hasUser /\ hasTags THEN "both"
    ELSE IF ~hasUser /\ ~hasTags THEN "neither"
    ELSE IF hasUser THEN "user_id"
    ELSE "tags"

\* what list_events makes of the labels parameter: "none" (no label
\* filter), "payload" (the parsed object) or "reject" (HTTP 400)
LabelsCheck_AnyJsonAccepted(kind) ==
    IF kind \in {"absent", "empty"} THEN "none"
    ELSE IF kind = "malformed" THEN "reject"
    ELSE "payload"

LabelsCheck(kind) ==
    IF kind \in {"absent", "empty"} THEN "none"
    ELSE IF kind = "malformed" THEN "reject"
    ELSE IF kind # "object" THEN "reject"
    ELSE "payload"

\* keyword arguments of the router's call and parameters of the method
\* EventService.get_events_by_tags_and_labels_query
RouterKeywords == {"tags", "labels", "privy"}

ServiceParameters == {"tags", "labels"}

\* _build_tags_labels_query: the rows whose tags contain every requested tag
\* and, when labels are given and not empty, whose labels contain every
\* requested pair
BuildTagsLabelsQuery(tags, labels, rows) ==
    { i \in 1..Len(rows) :
        /\ Range(tags) \subseteq Range(rows[i].tags)
        /\ labels # NoLabels => labels \subseteq rows[i].labels }

Rejected(req, code) ==
    [req |-> req, status |-> code, mode |-> "none", serviceCalls |-> 0,
     queries |-> 0, items |-> {}, rows |-> 0]

\* the response of list_events to a request; userQueryOk says whether the
\* user_id query of the service, which is not part of this source, gave a page;
\* rows is the number of rows a query that reached the store has read
ListEventsResponse(req, userQueryOk, rows) ==
    LET mode == FilterMode(HasUser(req.user_id), HasTags(req.tags)) IN
    IF mode = "both" THEN Rejected(req, 400)
    ELSE IF mode = "neither" THEN Rejected(req, 422)
    ELSE IF mode = "user_id"
        THEN [req |-> req, status |-> IF userQueryOk THEN 200 ELSE 500,
              mode |-> "user_id", serviceCalls |-> 1,
              queries |-> IF userQueryOk THEN 1 ELSE 0, items |-> {}, rows |-> 0]
    ELSE IF ~HasTags(req.tags) THEN Rejected(req, 422)
    ELSE LET check == LabelsCheck(req.labels.kind) IN
        IF check = "reject" THEN Rejected(req, 400)
        ELSE IF ~(RouterKeywords \subseteq ServiceParameters)
            \* TypeError: unexpected keyword argument
            THEN [req |-> req, status |-> 500, mode |-> "tags",
                  serviceCalls |-> 1, queries |-> 0, items |-> {}, rows |-> 0]
        ELSE [req |-> req, status |-> 200, mode |-> "tags",
              serviceCalls |-> 1, queries |-> 1, rows |-> Len(rows),
              items |-> BuildTagsLabelsQuery(
                            req.tags.values,
                            IF check = "payload" THEN req.labels.object
                                                 ELSE NoLabels,
                            rows)]

ListEvents(user_id, tags, labels) ==
    /\ \E userQueryOk \in BOOLEAN :
        response' = ListEventsResponse(
                        [user_id |-> user_id, tags |-> tags, labels |-> labels],
                        userQueryOk, table)
    /\ UNCHANGED <<wire, table>>
    /\ UNCHANGED <<consumerVars, publisherVars>>

NextStore ==
    \/ \E p \in IngestPayloads : HandleEventCommits(p)
    \/ \E msg \in WorkerMessages : WorkerHandler(msg)
    \/ \E user_id \in {0, 1}, tags \in TagParams, labels \in LabelParams :
        ListEvents(user_id, tags, labels)

(***************************************************************************)
(* The registry entries the lifespan can find in EVENT_SUBSCRIPTIONS, as   *)
(* far as subscribe() looks at them: whether the subject is non-empty,     *)
(* whether a stream name is known (entry.stream or settings) and auto_ack. *)
(***************************************************************************)
Entries ==
    { [subject |-> TRUE, stream |-> TRUE, auto_ack |-> TRUE],
      [subject |-> TRUE, stream |-> TRUE, auto_ack |-> FALSE],
      [subject |-> FALSE, stream |-> TRUE, auto_ack |-> TRUE],
      [subject |-> TRUE, stream |-> FALSE, auto_ack |-> TRUE] }

NoEntry == [subject |-> FALSE, stream |-> FALSE, auto_ack |-> FALSE]

Finished(i) == call[i].st \in {"ok", "failed"}

Init ==
    /\ nc = 0
    /\ js = 0
    /\ tasks = {}
    /\ subscriptions = <<>>
    /\ lpc = "init"
    /\ hasSubscriber = FALSE
    /\ call = [i \in Subs |-> [st |-> "todo", entry |-> NoEntry, js |-> 0]]
    /\ cpc = "idle"
    /\ gathered = {}
    /\ unsubIdx = 0
    /\ closeConn = 0
    /\ closeResult = "none"
    /\ loopState = [t \in Subs |-> "NONE"]
    /\ loopPc = [t \in Subs |-> "pull"]
    /\ cur = [t \in Subs |-> 0]
    /\ autoAck = [t \in Subs |-> TRUE]
    /\ cancelRequested = [t \in Subs |-> FALSE]
    /\ cancelSeen = [t \in Subs |-> FALSE]
    /\ conns = 0
    /\ connClosed = [c \in Subs |-> 0]
    /\ subState = [s \in Subs |-> "none"]
    /\ subConn = [s \in Subs |-> 0]
    /\ unsubCalls = [s \in Subs |-> 0]
    /\ queue = [s \in Subs |-> <<>>]
    /\ deliveries = <<>>
    /\ handled = [s \in Subs |-> <<>>]
    /\ PublisherConstructed
    /\ StoreEmpty

(***************************************************************************)
(* The lifespan: construction of the subscriber.                           *)
(***************************************************************************)
LifespanStart ==
    /\ lpc = "init"
    /\ \E cfg \in {"ok", "no_servers", "disabled"} :
        IF cfg = "ok"
            THEN lpc' = "startup" /\ hasSubscriber' = TRUE
            ELSE lpc' = "serving" /\ hasSubscriber' = FALSE
    /\ UNCHANGED <<call, subscriberVars, closeVars, loopVars, connVars, brokerVars>>
    /\ UNCHANGED <<publisherVars, storeVars>>

(***************************************************************************)
(* subscribe() raising inside the lifespan's for loop.                     *)
(***************************************************************************)
SubscribeFails(i) ==
    /\ call' = [call EXCEPT ![i] = [st |-> "failed", entry |-> NoEntry, js |-> 0]]
    /\ IF OnSubscribeError = "continue"
        THEN UNCHANGED <<lpc, hasSubscriber>>
        ELSE lpc' = "serving" /\ hasSubscriber' = FALSE

(***************************************************************************)
(* subscribe(), from _ensure_conn's return to the await of js.subscribe.   *)
(***************************************************************************)
AfterEnsureConn(i, e, ctx) ==
    IF ~e.stream
        THEN SubscribeFails(i)
        ELSE /\ call' = [call EXCEPT ![i] = [st |-> "jssub", entry |-> e, js |-> ctx]]
             /\ UNCHANGED <<lpc, hasSubscriber>>

\* subscribe() is called and runs to its first await, or raises
SubscribeCalled(i) ==
    /\ call[i].st = "todo"
    /\ \E e \in Entries, is_connected \in BOOLEAN :
        IF ~e.subject
            THEN SubscribeFails(i)
            ELSE IF nc # 0 /\ is_connected
                THEN AfterEnsureConn(i, e, js)
                ELSE /\ call' = [call EXCEPT ![i] =
                            [st |-> "connect", entry |-> e, js |-> 0]]
                     /\ UNCHANGED <<lpc, hasSubscriber>>
    /\ UNCHANGED <<subscriberVars, closeVars, loopVars, connVars, brokerVars>>
    /\ UNCHANGED <<publisherVars, storeVars>>

\* the lifespan's for loop calls subscribe() for one entry after the other
SubscribeBegin(i) ==
    /\ lpc = "startup"
    /\ \A j \in Subs : j < i => Finished(j)
    /\ SubscribeCalled(i)

\* nats.connect returns or raises in _ensure_conn
ConnectReturn(i) ==
    /\ call[i].st = "connect"
    /\ \E ok \in BOOLEAN :
        IF ok
            THEN /\ conns' = conns + 1
                 /\ nc' = conns + 1
                 /\ js' = conns + 1
                 /\ AfterEnsureConn(i, call[i].entry, conns + 1)
            ELSE /\ SubscribeFails(i)
                 /\ UNCHANGED <<conns, nc, js>>
    /\ UNCHANGED <<tasks, subscriptions, closeVars, loopVars, connClosed, brokerVars>>
    /\ UNCHANGED <<publisherVars, storeVars>>

\* self._tasks once js.subscribe has returned (ok) or raised: the task is
\* created and added only after the await has returned
TasksAfterJsSubscribe_CreatedEarly(i, ok) == tasks \cup {i}

TasksAfterJsSubscribe(i, ok) == IF ok THEN tasks \cup {i} ELSE tasks

JsSubscribeReturn(i) ==
    /\ call[i].st = "jssub"
    /\ \E ok \in {b \in BOOLEAN : b => connClosed[call[i].js] = 0} :
        /\ tasks' = TasksAfterJsSubscribe(i, ok)
        /\ IF ok
            THEN /\ call' = [call EXCEPT ![i] = [st |-> "ok", entry |-> NoEntry, js |-> 0]]
                 /\ subState' = [subState EXCEPT ![i] = "active"]
                 /\ subConn' = [subConn EXCEPT ![i] = call[i].js]
                 /\ loopState' = [loopState EXCEPT ![i] = "RUNNING"]
                 /\ loopPc' = [loopPc EXCEPT ![i] = "pull"]
                 /\ autoAck' = [autoAck EXCEPT ![i] = call[i].entry.auto_ack]
                 /\ subscriptions' = Append(subscriptions, i)
                 /\ UNCHANGED <<lpc, hasSubscriber>>
            ELSE /\ SubscribeFails(i)
                 /\ UNCHANGED <<subState, subConn, loopState, loopPc, autoAck,
                                subscriptions>>
    /\ UNCHANGED <<nc, js, closeVars, cur, cancelRequested, cancelSeen, connVars,
                   unsubCalls, queue, deliveries, handled>>
    /\ UNCHANGED <<publisherVars, storeVars>>

LifespanYield(n) ==
    /\ lpc = "startup"
    /\ \A i \in 1..n : Finished(i)
    /\ lpc' = "serving"
    /\ UNCHANGED <<hasSubscriber, call, subscriberVars, closeVars, loopVars,
                   connVars, brokerVars>>
    /\ UNCHANGED <<publisherVars, storeVars>>

LifespanStopNoSubscriber ==
    /\ lpc = "serving"
    /\ ~hasSubscriber
    /\ lpc' = "stopped"
    /\ UNCHANGED <<hasSubscriber, call, subscriberVars, closeVars, loopVars,
                   connVars, brokerVars>>
    /\ UNCHANGED <<publisherVars, storeVars>>


(***************************************************************************)
(* close().  asyncio.gather returns once every task it was given is done.  *)
(***************************************************************************)
GatherDone_NoWait(S) == TRUE

GatherDone(S) == \A t \in S : loopState[t] \in {"CANCELLED", "FAILED"}

\* where close() goes after the gather: the first unsubscribe(), nc.close(),
\* or its return
AfterGather ==
    IF Len(subscriptions) > 0 THEN "unsub"
    ELSE IF nc # 0 THEN "connclose" ELSE "return"

\* where close() goes after the unsubscribe loop
AfterUnsubscribeLoop == IF nc # 0 THEN "connclose" ELSE "return"

\* the lifespan's finally clause, run when its close() call has ended
LifespanAfterClose ==
    IF lpc = "serving"
        THEN lpc' = "stopped" /\ hasSubscriber' = FALSE
        ELSE UNCHANGED <<lpc, hasSubscriber>>

\* close() runs on to the await named by ph, or returns
CloseGoto(ph) ==
    /\ cpc' = IF ph = "return" THEN "idle" ELSE ph
    /\ unsubIdx' = IF ph = "unsub" THEN 1 ELSE 0
    /\ closeConn' = IF ph = "connclose" THEN nc ELSE 0
    /\ subscriptions' = IF ph = "unsub" THEN subscriptions ELSE <<>>
    /\ unsubCalls' = IF ph = "unsub"
                        THEN [unsubCalls EXCEPT ![subscriptions[1]] = @ + 1]
                        ELSE unsubCalls
    /\ closeResult' = IF ph = "return" THEN "ok" ELSE closeResult
    /\ IF ph = "return" THEN LifespanAfterClose ELSE UNCHANGED <<lpc, hasSubscriber>>

CloseBegin ==
    /\ cpc = "idle"
    /\ \/ lpc = "serving" /\ hasSubscriber
       \/ lpc = "stopped" /\ closeResult # "none"
    /\ cancelRequested' = [t \in Subs |-> cancelRequested[t] \/ t \in tasks]
    /\ gathered' = tasks
    /\ IF tasks # {}
        THEN /\ cpc' = "gather"
             /\ UNCHANGED <<unsubIdx, closeConn, subscriptions, unsubCalls,
                            closeResult, lpc, hasSubscriber>>
        ELSE CloseGoto(AfterGather)
    /\ UNCHANGED <<nc, js, tasks, call, loopState, loopPc, cur, autoAck, cancelSeen,
                   conns, connClosed, subState, subConn, queue, deliveries, handled>>
    /\ UNCHANGED <<publisherVars, storeVars>>

CloseGatherReturn ==
    /\ cpc = "gather"
    /\ GatherDone(gathered)
    /\ CloseGoto(AfterGather)
    /\ gathered' = {}
    /\ UNCHANGED <<nc, js, tasks, call, loopVars, conns,
                   connClosed, subState, subConn, queue, deliveries, handled>>
    /\ UNCHANGED <<publisherVars, storeVars>>

CloseUnsubscribeReturn ==
    /\ cpc = "unsub"
    /\ LET s == subscriptions[unsubIdx] IN
       \E ok \in BOOLEAN :
        /\ subState' = [subState EXCEPT ![s] = IF ok THEN "unsubscribed" ELSE @]
        /\ IF ~ok /\ OnUnsubscribeError = "raise"
            THEN /\ cpc' = "idle"
                 /\ closeResult' = "unsubscribe"
                 /\ LifespanAfterClose
                 /\ UNCHANGED <<unsubIdx, closeConn, subscriptions, unsubCalls>>
            ELSE IF unsubIdx < Len(subscriptions)
                THEN /\ unsubIdx' = unsubIdx + 1
                     /\ unsubCalls' =
                            [unsubCalls EXCEPT ![subscriptions[unsubIdx + 1]] = @ + 1]
                     /\ UNCHANGED <<cpc, closeConn, subscriptions, closeResult, lpc,
                                    hasSubscriber>>
                ELSE CloseGoto(AfterUnsubscribeLoop)
    /\ UNCHANGED <<nc, js, tasks, call, gathered, loopVars, conns,
                   connClosed, subConn, queue, deliveries, handled>>
    /\ UNCHANGED <<publisherVars, storeVars>>

CloseConnReturn ==
    /\ cpc = "connclose"
    /\ \E ok \in BOOLEAN :
        IF ok
            THEN /\ connClosed' = [connClosed EXCEPT ![closeConn] = @ + 1]
                 /\ nc' = 0
                 /\ js' = 0
                 /\ closeResult' = "ok"
            ELSE /\ closeResult' = "connclose"
                 /\ UNCHANGED <<connClosed, nc, js>>
    /\ cpc' = "idle"
    /\ closeConn' = 0
    /\ LifespanAfterClose
    /\ UNCHANGED <<tasks, subscriptions, call, gathered, unsubIdx,
                   loopVars, conns, brokerVars>>
    /\ UNCHANGED <<publisherVars, storeVars>>

(***************************************************************************)
(* The consumer loop, _message_loop and _process_message.                  *)
(***************************************************************************)
Running(t) == loopState[t] = "RUNNING"

\* _cleanup_task, the done callback
CleanupTask_ClearsAll(t) == tasks' = {}

CleanupTask(t) == tasks' = tasks \ {t}

\* how the asyncio task of a loop in state st has ended: a CancelledError is
\* re-raised by _message_loop, any other exception is logged by its except
\* clause, after which the coroutine falls off its end and returns None
TaskOutcome(st) ==
    IF st = "CANCELLED" THEN "cancelled"
    ELSE IF st = "FAILED" THEN "returned"
    ELSE "pending"

\* what _cleanup_task lets out of task.result() for a task that has ended:
\* nothing for a task that returned, nothing for one that raised an Exception
\* (except Exception: pass), the CancelledError of a cancelled one
CleanupTaskSurfaces(outcome) ==
    IF outcome = "cancelled" THEN "CancelledError" ELSE "nothing"

\* messages.get() returns a message: decode, handler and the first await;
\* faults are the storage faults the handler may meet
PullMessage(t, faults) ==
    /\ Running(t)
    /\ loopPc[t] = "pull"
    /\ ~cancelRequested[t]
    /\ queue[t] # <<>>
    /\ LET d == NextMessage(queue[t])
           dec == Decode(deliveries[d].payload)
       IN \E fault \in (IF dec.ok THEN faults ELSE {"none"}) :
           LET h == HandleEvent(dec.event, fault)
               handlerOk == ~h.raised
               aw == FirstAwait(dec.ok, handlerOk, autoAck[t])
           IN
            /\ queue' = [queue EXCEPT ![t] = RemoveAt(@, IndexOf(@, d))]
            /\ deliveries' = [deliveries EXCEPT ![d] =
                    [@ EXCEPT !.status = IF aw = "pull" THEN "done" ELSE "processing",
                              !.handler = IF ~dec.ok THEN "none"
                                          ELSE IF handlerOk THEN "ok" ELSE "raised",
                              !.rows = IF dec.ok THEN h.rows ELSE 0,
                              !.session =
                                    IF ~dec.ok THEN "none"
                                    ELSE IF h.rolledBack /\ h.closed
                                        THEN "rolled back, closed"
                                    ELSE IF h.closed THEN "closed" ELSE "open",
                              !.ack = IF aw = "ack" THEN 1 ELSE 0,
                              !.nak = IF aw = "nak" THEN 1 ELSE 0,
                              !.term = IF aw = "term" THEN 1 ELSE 0]]
            /\ handled' = IF dec.ok
                            THEN [handled EXCEPT ![t] =
                                    Append(@, [d |-> d, event |-> dec.event])]
                            ELSE handled
            /\ loopPc' = [loopPc EXCEPT ![t] = aw]
            /\ cur' = [cur EXCEPT ![t] = IF aw = "pull" THEN 0 ELSE d]
    /\ UNCHANGED <<subscriberVars, lifespanVars, closeVars, loopState, autoAck,
                   cancelRequested, cancelSeen, connVars, subState, subConn,
                   unsubCalls>>
    /\ UNCHANGED <<publisherVars, storeVars>>

\* messages.get() returns None: the loop pulls again
PullNone(t) ==
    /\ Running(t)
    /\ loopPc[t] = "pull"
    /\ ~cancelRequested[t]
    /\ UNCHANGED vars

\* messages.get() raises: the loop logs the error and ends
PullRaises(t) ==
    /\ Running(t)
    /\ loopPc[t] = "pull"
    /\ ~cancelRequested[t]
    /\ loopState' = [loopState EXCEPT ![t] = "FAILED"]
    /\ CleanupTask(t)
    /\ UNCHANGED <<nc, js, subscriptions, lifespanVars, closeVars, loopPc, cur,
                   autoAck, cancelRequested, cancelSeen, connVars, brokerVars>>
    /\ UNCHANGED <<publisherVars, storeVars>>

\* msg.ack(), msg.nak() or msg.term() returns or raises
AwaitReturn(t) ==
    /\ Running(t)
    /\ loopPc[t] \in {"ack", "nak", "term"}
    /\ ~cancelRequested[t]
    /\ \E ok \in BOOLEAN :
        LET at == loopPc[t]
            d == cur[t]
            nxt == IF ok THEN "pull" ELSE AfterFailedAwait(at)
        IN /\ deliveries' = [deliveries EXCEPT ![d] =
                    [@ EXCEPT !.disp = IF ok THEN at ELSE @,
                              !.nak = IF nxt = "nak" THEN @ + 1 ELSE @,
                              !.status = IF nxt = "nak" THEN "processing" ELSE "done"]]
           /\ cur' = [cur EXCEPT ![t] = IF nxt = "nak" THEN d ELSE 0]
           /\ IF nxt = "raise"
                THEN /\ loopState' = [loopState EXCEPT ![t] = "FAILED"]
                     /\ CleanupTask(t)
                     /\ UNCHANGED loopPc
                ELSE /\ loopPc' = [loopPc EXCEPT ![t] = nxt]
                     /\ UNCHANGED <<loopState, tasks>>
    /\ UNCHANGED <<nc, js, subscriptions, lifespanVars, closeVars, autoAck,
                   cancelRequested, cancelSeen, connVars, subState, subConn,
                   unsubCalls, queue, handled>>
    /\ UNCHANGED <<publisherVars, storeVars>>

\* the CancelledError of task.cancel() is raised at the await the task is
\* suspended at; a request that had already been written to the connection
\* may still land at the broker
Cancelled(t) ==
    /\ Running(t)
    /\ cancelRequested[t]
    /\ cancelRequested' = [cancelRequested EXCEPT ![t] = FALSE]
    /\ cancelSeen' = [cancelSeen EXCEPT ![t] = TRUE]
    /\ loopState' = [loopState EXCEPT ![t] = OnCancelledError]
    /\ CleanupTask(t)
    /\ cur' = [cur EXCEPT ![t] = 0]
    /\ IF cur[t] = 0
        THEN UNCHANGED deliveries
        ELSE \E landed \in BOOLEAN :
            deliveries' = [deliveries EXCEPT ![cur[t]] =
                [@ EXCEPT !.status = "interrupted",
                          !.disp = IF landed THEN loopPc[t] ELSE @]]
    /\ UNCHANGED <<nc, js, subscriptions, lifespanVars, closeVars, loopPc, autoAck,
                   connVars, subState, subConn, unsubCalls, queue, handled>>
    /\ UNCHANGED <<publisherVars, storeVars>>

(***************************************************************************)
(* The broker and the transport.                                           *)
(***************************************************************************)
Delivery(m, s, p) ==
    [msg |-> m, sub |-> s, payload |-> p, status |-> "queued", handler |-> "none",
     rows |-> 0, session |-> "none", ack |-> 0, nak |-> 0, term |-> 0,
     disp |-> "none"]

\* (a delivery to a subscription whose loop has ended is never read by the
\* program and is left out)
Deliverable(s, cap) ==
    /\ subState[s] = "active"
    /\ Running(s)
    /\ connClosed[subConn[s]] = 0
    /\ Len(deliveries) < cap

LastDeliveryOf(m) ==
    CHOOSE d \in 1..Len(deliveries) :
        /\ deliveries[d].msg = m
        /\ \A e \in 1..Len(deliveries) : deliveries[e].msg = m => e <= d

\* the broker delivers message m again when its last delivery was negatively
\* acknowledged, or ended without any acknowledgment (ack wait elapsed)
Redeliverable(m) ==
    /\ deliveries[m].msg = m
    /\ LET last == deliveries[LastDeliveryOf(m)] IN
        /\ last.status \in {"done", "interrupted"}
        /\ last.disp \in {"none", "nak"}

\* a message arrives on subscription s: a new one, with a payload out of
\* payloads, or a redelivery of an earlier one, with the payload it had
Deliver(s, cap, payloads) ==
    /\ Deliverable(s, cap)
    /\ LET d == Len(deliveries) + 1 IN
        \E m \in 1..d, p \in payloads :
            /\ m < d => Redeliverable(m) /\ p = deliveries[m].payload
            /\ deliveries' = Append(deliveries, Delivery(m, s, p))
            /\ queue' = [queue EXCEPT ![s] = Append(@, d)]
    /\ UNCHANGED <<subscriberVars, lifespanVars, closeVars, loopVars, connVars,
                   subState, subConn, unsubCalls, handled>>
    /\ UNCHANGED <<publisherVars, storeVars>>

\* the program with a registry of n entries, a broker that makes at most
\* cap deliveries, of messages with a payload out of payloads, and a store
\* that may fail a handler execution with one of faults
Next(n, cap, payloads, faults) ==
    \/ LifespanStart
    \/ \E i \in 1..n : SubscribeBegin(i)
    \/ \E i \in 1..n : ConnectReturn(i)
    \/ \E i \in 1..n : JsSubscribeReturn(i)
    \/ LifespanYield(n)
    \/ LifespanStopNoSubscriber
    \/ CloseBegin
    \/ CloseGatherReturn
    \/ CloseUnsubscribeReturn
    \/ CloseConnReturn
    \/ \E t \in 1..n : PullMessage(t, faults)
    \/ \E t \in 1..n : PullNone(t)
    \/ \E t \in 1..n : PullRaises(t)
    \/ \E t \in 1..n : AwaitReturn(t)
    \/ \E t \in 1..n : Cancelled(t)
    \/ \E s \in 1..n : Deliver(s, cap, payloads)

WellFormed == {p \in Payloads : Decode(p).ok}

\* startup and shutdown over a registry of NumSubs entries, whose loops
\* consume well-formed events and whose store fails, if it does, in the commit
Spec ==
    Init /\ [][Next(NumSubs, MaxRegistryDeliveries, WellFormed,
                    {"none", "commit"})]_vars

\* the registry as shipped, consuming any payload, with any storage fault
SpecLoop ==
    Init /\ [][Next(ShippedRegistrySize, MaxDeliveries, Payloads,
                    HandlerFaults)]_vars

\* the same loop, followed for the acknowledgments it issues per delivery
SpecDisposition ==
    Init /\ [][Next(ShippedRegistrySize, MaxDisposedDeliveries, Payloads,
                    HandlerFaults)]_vars


\* a publisher used for up to MaxPublishes publish_event calls, with close()
\* calls at any moment
SpecPublisher == Init /\ [][NextPublisher]_vars

\* up to MaxRoundTrips envelopes, each encoded by the publisher and decoded
\* by the subscriber
SpecCodec == Init /\ [][NextCodec]_vars

\* up to MaxRows events written by the two ingestion paths, and GET /events
\* requests at any moment
SpecStore == Init /\ [][NextStore]_vars

(***************************************************************************)
(* The application while it serves: the state the startup reaches when     *)
(* every registry entry was subscribed on one connection with the default  *)
(* auto_ack, and the steps of the consumer loops and of the broker from    *)
(* there on, with no shutdown.                                             *)
(***************************************************************************)
Serving ==
    /\ nc = 1
    /\ js = 1
    /\ tasks = Subs
    /\ subscriptions = [i \in Subs |-> i]
    /\ lpc = "serving"
    /\ hasSubscriber = TRUE
    /\ call = [i \in Subs |-> [st |-> "ok", entry |-> NoEntry, js |-> 0]]
    /\ cpc = "idle"
    /\ gathered = {}
    /\ unsubIdx = 0
    /\ closeConn = 0
    /\ closeResult = "none"
    /\ loopState = [t \in Subs |-> "RUNNING"]
    /\ loopPc = [t \in Subs |-> "pull"]
    /\ cur = [t \in Subs |-> 0]
    /\ autoAck = [t \in Subs |-> TRUE]
    /\ cancelRequested = [t \in Subs |-> FALSE]
    /\ cancelSeen = [t \in Subs |-> FALSE]
    /\ conns = 1
    /\ connClosed = [c \in Subs |-> 0]
    /\ subState = [s \in Subs |-> "active"]
    /\ subConn = [s \in Subs |-> 1]
    /\ unsubCalls = [s \in Subs |-> 0]
    /\ queue = [s \in Subs |-> <<>>]
    /\ deliveries = <<>>
    /\ handled = [s \in Subs |-> <<>>]
    /\ PublisherConstructed
    /\ StoreEmpty

NextServing(n, cap, payloads, faults) ==
    \/ \E t \in 1..n : PullMessage(t, faults)
    \/ \E t \in 1..n : PullNone(t)
    \/ \E t \in 1..n : PullRaises(t)
    \/ \E t \in 1..n : AwaitReturn(t)
    \/ \E s \in 1..n : Deliver(s, cap, payloads)

\* NumSubs loops serving, consuming any payload, with any storage fault
SpecServing ==
    Serving /\ [][NextServing(NumSubs, MaxServingDeliveries, Payloads,
                              HandlerFaults)]_vars

(***************************************************************************)
(* The shipped loop while it serves, with the scheduling it can count on:  *)
(* the event loop resumes a task whose await has a result, and the broker  *)
(* redelivers what was not acknowledged.  Failures of the store and of the *)
(* ack and term round trips are transient: at most MaxFailures attempts    *)
(* fail in a run, so the handler and the acknowledgment of a message       *)
(* eventually succeed.  The pull may raise at any moment.                  *)
(***************************************************************************)
LiveFaults == {"none", "commit", "refresh"}

\* the delivery is an attempt that failed: its handler raised, its ack()
\* failed, or the term() of a payload that did not decode failed
FailedAttempt(r) ==
    \/ r.handler = "raised"
    \/ r.ack = 1 /\ r.nak = 1
    \/ r.term = 1 /\ r.status = "done" /\ r.disp = "none"

FailedAttempts(ds) == Cardinality({d \in 1..Len(ds) : FailedAttempt(ds[d])})

LivePull(t) ==
    /\ PullMessage(t, LiveFaults)
    /\ FailedAttempts(deliveries') <= MaxFailures

LiveAwaitReturn(t) ==
    /\ AwaitReturn(t)
    /\ FailedAttempts(deliveries') <= MaxFailures

LiveDeliver(s) ==
    /\ Deliver(s, MaxLiveMessages + MaxFailures, Payloads)
    /\ Cardinality({d \in 1..Len(deliveries') : deliveries'[d].msg = d})
            <= MaxLiveMessages

NextLive(n) ==
    \/ \E t \in 1..n : LivePull(t)
    \/ \E t \in 1..n : PullRaises(t)
    \/ \E t \in 1..n : LiveAwaitReturn(t)
    \/ \E s \in 1..n : LiveDeliver(s)

SpecLive ==
    /\ Serving
    /\ [][NextLive(ShippedRegistrySize)]_vars
    /\ \A t \in 1..ShippedRegistrySize :
        /\ WF_vars(LivePull(t))
        /\ WF_vars(LiveAwaitReturn(t))
        /\ WF_vars(LiveDeliver(t))

(***************************************************************************)
(* One NatsSubscriber and one NatsPublisher used by concurrent callers.    *)
(* Constructed is an application that holds a subscriber on which nothing  *)
(* was called yet.  The callers' subscribe() calls are numbered in the     *)
(* order in which they are made; none waits for another one, or for a      *)
(* close(), to finish.                                                     *)
(***************************************************************************)
Constructed ==
    /\ nc = 0
    /\ js = 0
    /\ tasks = {}
    /\ subscriptions = <<>>
    /\ lpc = "serving"
    /\ hasSubscriber = TRUE
    /\ call = [i \in Subs |-> [st |-> "todo", entry |-> NoEntry, js |-> 0]]
    /\ cpc = "idle"
    /\ gathered = {}
    /\ unsubIdx = 0
    /\ closeConn = 0
    /\ closeResult = "none"
    /\ loopState = [t \in Subs |-> "NONE"]
    /\ loopPc = [t \in Subs |-> "pull"]
    /\ cur = [t \in Subs |-> 0]
    /\ autoAck = [t \in Subs |-> TRUE]
    /\ cancelRequested = [t \in Subs |-> FALSE]
    /\ cancelSeen = [t \in Subs |-> FALSE]
    /\ conns = 0
    /\ connClosed = [c \in Subs |-> 0]
    /\ subState = [s \in Subs |-> "none"]
    /\ subConn = [s \in Subs |-> 0]
    /\ unsubCalls = [s \in Subs |-> 0]
    /\ queue = [s \in Subs |-> <<>>]
    /\ deliveries = <<>>
    /\ handled = [s \in Subs |-> <<>>]
    /\ PublisherConstructed
    /\ StoreEmpty

\* a caller calls subscribe() while no close() has ended yet; a close() may
\* be in progress, and so may other subscribe() calls
ConcurrentSubscribe(i) ==
    /\ closeResult = "none"
    /\ \A j \in Subs : j < i => call[j].st # "todo"
    /\ SubscribeCalled(i)

\* subscribe() and close() calls in any interleaving; the loops pull no
\* message: they end by a cancellation or by their pull raising
NextConcurrent(n) ==
    \/ \E i \in 1..n : ConcurrentSubscribe(i)
    \/ \E i \in 1..n : ConnectReturn(i)
    \/ \E i \in 1..n : JsSubscribeReturn(i)
    \/ CloseBegin
    \/ CloseGatherReturn
    \/ CloseUnsubscribeReturn
    \/ CloseConnReturn
    \/ \E t \in 1..n : PullRaises(t)
    \/ \E t \in 1..n : Cancelled(t)

SpecConcurrent == Constructed /\ [][NextConcurrent(NumSubs)]_vars

\* subscribe() and publish_event on a transport that keeps every connection
\* it has established connected: a call that finds a connection cached does
\* not connect; nothing is closed
LazySubscribe(i) ==
    /\ \A j \in Subs : j < i => call[j].st # "todo"
    /\ SubscribeCalled(i)
    /\ nc # 0 => call'[i].st # "connect"

LazyPublish(c) ==
    /\ PublishEvent(c)
    /\ pubNc # 0 => pubCalls'[c].st # "connect"

NextLazyConnect(n) ==
    \/ \E i \in 1..n : LazySubscribe(i)
    \/ \E i \in 1..n : ConnectReturn(i)
    \/ \E i \in 1..n : JsSubscribeReturn(i)
    \/ \E c \in Publishes : LazyPublish(c)
    \/ \E c \in Publishes : PublishConnectReturn(c)
    \/ \E c \in Publishes : PublishReturn(c)

SpecLazyConnect == Constructed /\ [][NextLazyConnect(NumSubs)]_vars


(***************************************************************************)
(* Vocabulary of the properties.                                           *)
(***************************************************************************)
DeliveryIds == 1..Len(deliveries)

Malformed(d) == ~Decode(deliveries[d].payload).ok

\* the delivery has left the pending queue: _process_message was called on it
Pulled(d) == deliveries[d].status # "queued"

\* _process_message has returned for the delivery
Completed(d) == deliveries[d].status = "done"

\* the Event the handler was invoked with for delivery d
EventOf(d) ==
    LET log == handled[deliveries[d].sub]
        k == CHOOSE k \in 1..Len(log) : log[k].d = d
    IN log[k].event

HandlerInvoked(d) ==
    \E k \in 1..Len(handled[deliveries[d].sub]) : handled[deliveries[d].sub][k].d = d

\* the step is one of loop t processing a message without being cancelled
ProcessingStep(t) ==
    /\ Running(t)
    /\ ~cancelRequested[t]
    /\ \/ cur[t] # 0 /\ deliveries'[cur[t]] # deliveries[cur[t]]
       \/ Len(queue'[t]) < Len(queue[t])

(***************************************************************************)
(* C1. Poison-message isolation: a delivery whose payload does not decode  *)
(* or validate gets exactly one term(), no handler invocation, no ack()    *)
(* and no nak(); and the step that ends its processing, with term()        *)
(* returning or raising, leaves the loop RUNNING at the pull.              *)
(***************************************************************************)
C1_State ==
    \A d \in DeliveryIds :
        Malformed(d) /\ Pulled(d) =>
            /\ deliveries[d].term = 1
            /\ deliveries[d].ack = 0
            /\ deliveries[d].nak = 0
            /\ deliveries[d].handler = "none"
            /\ ~HandlerInvoked(d)

C1_Step ==
    \A t \in Subs :
        ProcessingStep(t) /\ cur[t] # 0 /\ Malformed(cur[t]) =>
            /\ loopState'[t] = "RUNNING"
            /\ loopPc'[t] = "pull"
            /\ deliveries'[cur[t]].status = "done"

C1_PoisonMessageIsolation == []C1_State /\ [][C1_Step]_vars

\* a poison message was terminated although term() raised, and the same
\* loop then passed a later message to the handler
C1_Witness ==
    \E d, e \in DeliveryIds :
        /\ d < e
        /\ deliveries[d].sub = deliveries[e].sub
        /\ Malformed(d) /\ Completed(d)
        /\ deliveries[d].term = 1 /\ deliveries[d].disp = "none"
        /\ HandlerInvoked(e)

(***************************************************************************)
(* C2. Redelivery on handler failure: a delivery whose handler raised is   *)
(* negatively acknowledged and never acknowledged, the loop stays RUNNING, *)
(* and a redelivery of that message that the loop pulls is passed to the   *)
(* handler again, with an Event equal to the one of the first delivery.    *)
(***************************************************************************)
C2_RedeliveryOnHandlerFailure ==
    /\ \A d \in DeliveryIds :
        deliveries[d].handler = "raised" =>
            /\ deliveries[d].nak = 1
            /\ deliveries[d].ack = 0
            /\ deliveries[d].term = 0
            /\ deliveries[d].disp \in {"none", "nak"}
            /\ cur[deliveries[d].sub] = d =>
                /\ Running(deliveries[d].sub)
                /\ loopPc[deliveries[d].sub] = "nak"
    /\ \A d, e \in DeliveryIds :
        /\ d < e
        /\ deliveries[d].msg = deliveries[e].msg
        /\ deliveries[d].handler = "raised"
        /\ Pulled(e)
        => /\ HandlerInvoked(e)
           /\ EventOf(e) = EventOf(d)

\* the handler raised, the nak() went through, the broker redelivered and the
\* handler ran again on the redelivery
C2_Witness ==
    \E d, e \in DeliveryIds :
        /\ d < e
        /\ deliveries[d].msg = deliveries[e].msg
        /\ deliveries[d].handler = "raised"
        /\ deliveries[d].disp = "nak"
        /\ HandlerInvoked(e)
        /\ deliveries[e].handler = "ok"

(***************************************************************************)
(* C3. Acknowledgment exactly once per success: with auto_ack = True,      *)
(* every delivery whose handler returned without raising has had exactly   *)
(* one ack() issued by the loop.                                           *)
(***************************************************************************)
C3_AckExactlyOncePerSuccess ==
    \A d \in DeliveryIds :
        deliveries[d].handler = "ok" /\ autoAck[deliveries[d].sub] =>
            deliveries[d].ack = 1

C3_Witness ==
    \E d \in DeliveryIds :
        /\ deliveries[d].handler = "ok"
        /\ autoAck[deliveries[d].sub]
        /\ Completed(d)
        /\ deliveries[d].disp = "ack"

(***************************************************************************)
(* C4. Sequential processing: in one loop the handler is invoked in        *)
(* delivery order, a message is pulled only when every earlier delivery of *)
(* the loop has finished, and at most one message is in flight.            *)
(***************************************************************************)
C4_SequentialProcessing ==
    \A s \in Subs :
        /\ \A j, k \in 1..Len(handled[s]) :
            j < k => handled[s][j].d < handled[s][k].d
        /\ \A d, e \in DeliveryIds :
            /\ deliveries[d].sub = s /\ deliveries[e].sub = s
            /\ d < e
            /\ Pulled(e)
            => deliveries[d].status \in {"done", "interrupted"}
        /\ \A d \in DeliveryIds :
            deliveries[d].sub = s /\ deliveries[d].status = "processing" => cur[s] = d
        /\ Cardinality({d \in DeliveryIds :
                deliveries[d].sub = s /\ deliveries[d].status = "processing"}) <= 1

\* two messages were waiting in one queue and the handler got both, in order
C4_Witness ==
    \E s \in Subs :
        /\ Len(handled[s]) = 2
        /\ handled[s][1].d < handled[s][2].d
        /\ deliveries[handled[s][1].d].msg # deliveries[handled[s][2].d].msg

(***************************************************************************)
(* C5. Per-message failure isolation: no step of a loop that processes a   *)
(* message (decode failure, handler failure, ack/nak/term raising) takes   *)
(* the loop out of RUNNING; it goes on to the nak() or to the next pull.   *)
(***************************************************************************)
C5_Step ==
    \A t \in Subs :
        ProcessingStep(t) =>
            /\ loopState'[t] = "RUNNING"
            /\ t \in tasks'
            /\ loopPc'[t] \in {"pull", "ack", "nak", "term"}
            /\ cur'[t] = 0 <=> loopPc'[t] = "pull"

C5_PerMessageFailureIsolation == [][C5_Step]_vars

\* ack() raised, the nak() that followed raised too, and the loop is RUNNING
C5_Witness ==
    \E d \in DeliveryIds :
        /\ Completed(d)
        /\ deliveries[d].handler = "ok"
        /\ deliveries[d].ack = 1 /\ deliveries[d].nak = 1
        /\ deliveries[d].disp = "none"
        /\ Running(deliveries[d].sub)
        /\ loopPc[deliveries[d].sub] = "pull"


(***************************************************************************)
(* C6. Startup partial-failure isolation: a registry entry whose           *)
(* subscribe() fails does not end the startup: the lifespan keeps its      *)
(* subscriber, every entry is attempted before the application serves, and *)
(* every entry whose own setup succeeded got its subscription and its      *)
(* consumer loop.                                                          *)
(***************************************************************************)
C6_StartupPartialFailureIsolation ==
    /\ (\E i \in Subs : call[i].st = "failed") /\ lpc = "serving" => hasSubscriber
    /\ (\E i \in Subs : call[i].st # "todo") /\ lpc \in {"serving", "stopped"} =>
            \A j \in Subs : Finished(j)
    /\ \A j \in Subs :
        call[j].st = "ok" =>
            /\ subState[j] # "none"
            /\ loopState[j] # "NONE"
            /\ lpc = "startup" /\ loopState[j] # "FAILED" => Running(j) /\ j \in tasks

\* the first entry failed, the second one is subscribed and its loop runs
C6_Witness ==
    /\ NumSubs >= 2
    /\ call[1].st = "failed"
    /\ call[2].st = "ok"
    /\ Running(2)
    /\ lpc = "serving"

(***************************************************************************)
(* C7. Shutdown ordering: while close() waits in the gather every loop it  *)
(* waits for is cancelled or has ended; unsubscribe() is called only when  *)
(* no loop is running; the connection is closed only when no loop is       *)
(* running and every subscription has had its unsubscribe() call and the   *)
(* list is cleared; no connection is closed twice, whatever the number of  *)
(* close() calls; and after a close() that returned normally the cached    *)
(* connection is gone and was closed once.                                 *)
(***************************************************************************)
C7_ShutdownOrdering ==
    /\ cpc = "gather" =>
        \A t \in gathered : Running(t) => cancelRequested[t]
    /\ (cpc = "unsub" \/ \E s \in Subs : unsubCalls[s] > 0) =>
        \A t \in Subs : ~Running(t)
    /\ (cpc = "connclose" \/ \E c \in Subs : connClosed[c] > 0) =>
        /\ \A t \in Subs : ~Running(t)
        /\ subscriptions = <<>>
        /\ \A s \in Subs : subState[s] # "none" => unsubCalls[s] = 1
    /\ \A c \in Subs : connClosed[c] <= 1
    /\ closeResult = "ok" /\ cpc = "idle" =>
        /\ nc = 0
        /\ conns > 0 => connClosed[conns] = 1

\* every loop was cancelled and awaited, the lifespan has stopped and the
\* cached connection was closed once
C7_Witness ==
    /\ \A t \in Subs : loopState[t] = "CANCELLED"
    /\ closeResult = "ok"
    /\ cpc = "idle"
    /\ lpc = "stopped"
    /\ conns > 0 /\ connClosed[conns] = 1

(***************************************************************************)
(* C8. Best-effort unsubscribe: close() never ends with the error of an    *)
(* unsubscribe(); once its unsubscribe loop is over every subscription has *)
(* had its unsubscribe() call, failed or not, the list is cleared, and the *)
(* connection close is reached.                                            *)
(***************************************************************************)
C8_BestEffortUnsubscribe ==
    /\ closeResult # "unsubscribe"
    /\ (cpc = "connclose" \/ closeResult # "none") =>
        /\ subscriptions = <<>>
        /\ \A s \in Subs : subState[s] # "none" => unsubCalls[s] = 1
    /\ closeResult = "ok" => nc = 0

\* unsubscribe() raised for the first subscription, the second one was
\* unsubscribed all the same and the connection was closed
C8_Witness ==
    /\ NumSubs >= 2
    /\ subState[1] = "active" /\ unsubCalls[1] = 1
    /\ subState[2] = "unsubscribed"
    /\ subscriptions = <<>>
    /\ closeResult = "ok"
    /\ connClosed[conns] = 1

(***************************************************************************)
(* C9. Cooperative cancellation: a loop cancelled while it waits in the    *)
(* pull takes no message from its queue, invokes no handler and issues no  *)
(* ack/nak/term; a loop in which the CancelledError was raised ends as     *)
(* CANCELLED (the error re-raised), never as a normal return; and a        *)
(* CANCELLED loop never acts again.                                        *)
(***************************************************************************)
DeliveriesOfUnchanged(t) ==
    \A d \in DeliveryIds : deliveries[d].sub = t => deliveries'[d] = deliveries[d]

C9_State ==
    \A t \in Subs :
        /\ cancelSeen[t] => loopState[t] = "CANCELLED" /\ t \notin tasks
        /\ loopState[t] = "CANCELLED" => cancelSeen[t] /\ cur[t] = 0

C9_Step ==
    \A t \in Subs :
        /\ Running(t) /\ cancelRequested[t] /\ loopPc[t] = "pull" =>
            /\ loopState'[t] \in {"RUNNING", "CANCELLED"}
            /\ Len(queue'[t]) >= Len(queue[t])
            /\ handled'[t] = handled[t]
            /\ DeliveriesOfUnchanged(t)
        /\ loopState[t] = "CANCELLED" =>
            /\ loopState'[t] = "CANCELLED"
            /\ queue'[t] = queue[t]
            /\ handled'[t] = handled[t]
            /\ DeliveriesOfUnchanged(t)

C9_CooperativeCancellation == []C9_State /\ [][C9_Step]_vars

\* a loop was cancelled in the pull with a message waiting in its queue: the
\* message is still there and nothing of the loop was interrupted
C9_Witness ==
    \E t \in Subs :
        /\ loopState[t] = "CANCELLED"
        /\ queue[t] # <<>>
        /\ \A d \in DeliveryIds :
            deliveries[d].sub = t => deliveries[d].status \in {"queued", "done"}
        /\ Len(handled[t]) > 0

(***************************************************************************)
(* C10. No preemption mid-message: a cancellation that arrives while a     *)
(* message is being processed does not interrupt it, so no delivery is     *)
(* ever left with its ack/nak/term round-trip cut short by the             *)
(* cancellation, and a loop ends as CANCELLED only from the pull.          *)
(***************************************************************************)
C10_NoPreemptionMidMessage ==
    \A d \in DeliveryIds : deliveries[d].status # "interrupted"

(***************************************************************************)
(* C11. Fatal loop errors are observable: for every consumer loop that    *)
(* ended as FAILED the done callback of its task surfaces a signal.        *)
(***************************************************************************)
C11_FatalLoopErrorsObservable ==
    \A t \in Subs :
        loopState[t] = "FAILED" =>
            CleanupTaskSurfaces(TaskOutcome(loopState[t])) # "nothing"

(***************************************************************************)
(* C12. Setup fails fast and leaves no trace: no step of a subscribe()     *)
(* call other than its successful end changes the task set, the            *)
(* subscription list or a loop; a call that failed has no loop task, no    *)
(* entry in the list and no subscription at the broker; and a failed call  *)
(* stays failed (nothing runs the setup again).                            *)
(***************************************************************************)
InSubscriptions(i) == \E k \in 1..Len(subscriptions) : subscriptions[k] = i

C12_State ==
    \A i \in Subs :
        call[i].st = "failed" =>
            /\ i \notin tasks
            /\ ~InSubscriptions(i)
            /\ loopState[i] = "NONE"
            /\ subState[i] = "none"

C12_Step ==
    \A i \in Subs :
        /\ call'[i] # call[i] /\ call'[i].st # "ok" =>
            /\ tasks' = tasks
            /\ subscriptions' = subscriptions
            /\ loopState' = loopState
        /\ call[i].st = "failed" => call'[i].st = "failed"

C12_SetupFailsFast == []C12_State /\ [][C12_Step]_vars

\* the second entry connected anew and then failed, while the first entry's
\* task and subscription are the only ones held
C12_Witness ==
    /\ NumSubs >= 2
    /\ call[1].st = "ok"
    /\ call[2].st = "failed"
    /\ conns = 2
    /\ tasks = {1}
    /\ subscriptions = <<1>>

(***************************************************************************)
(* C13. Persistence failure leaves nothing behind: a delivery whose        *)
(* handler raised has no row committed, its session was rolled back and    *)
(* closed, it is negatively acknowledged, and the loop stays RUNNING.      *)
(***************************************************************************)
C13_PersistenceFailureLeavesNothing ==
    \A d \in DeliveryIds :
        deliveries[d].handler = "raised" =>
            /\ deliveries[d].rows = 0
            /\ deliveries[d].session = "rolled back, closed"
            /\ deliveries[d].nak = 1
            /\ cur[deliveries[d].sub] = d => Running(deliveries[d].sub)

(***************************************************************************)
(* C14. Bounded duplication window.  CommittedDeliveries(m) are the        *)
(* deliveries of message m whose handler execution committed a row.        *)
(***************************************************************************)
Messages == {deliveries[d].msg : d \in DeliveryIds}

CommittedDeliveries(m) ==
    {d \in DeliveryIds : deliveries[d].msg = m /\ deliveries[d].rows > 0}

(***************************************************************************)
(* C14 as claimed: every successful handler execution persists exactly one *)
(* row and, no process crashing in these runs, every message yields at     *)
(* most one row.                                                           *)
(***************************************************************************)
C14_BoundedDuplicationWindow ==
    /\ \A d \in DeliveryIds :
        deliveries[d].handler = "ok" => deliveries[d].rows = 1
    /\ \A m \in Messages : Cardinality(CommittedDeliveries(m)) <= 1

(***************************************************************************)
(* C14 as amended: every successful handler execution persists exactly one *)
(* row, no execution persists more than one, and a message has more than   *)
(* one row only when it was redelivered after a delivery that committed    *)
(* its row and whose acknowledgment did not complete: every committed      *)
(* delivery of the message but the last one is without a completed ack.    *)
(***************************************************************************)
C14_DuplicationOnlyAfterUnackedCommit ==
    /\ \A d \in DeliveryIds :
        /\ deliveries[d].handler = "ok" => deliveries[d].rows = 1
        /\ deliveries[d].rows <= 1
        /\ deliveries[d].rows = 1 => HandlerInvoked(d)
    /\ \A m \in Messages :
        \A d, e \in CommittedDeliveries(m) :
            d < e => deliveries[d].disp # "ack"

\* in automatic-ack mode the handler committed, the ack() that followed
\* raised, and the redelivery committed a second row for the same message
C14_Witness ==
    \E d, e \in DeliveryIds :
        /\ d < e
        /\ deliveries[d].msg = deliveries[e].msg
        /\ autoAck[deliveries[d].sub]
        /\ deliveries[d].handler = "ok" /\ deliveries[d].rows = 1
        /\ deliveries[d].ack = 1 /\ deliveries[d].disp # "ack"
        /\ deliveries[e].handler = "ok" /\ deliveries[e].rows = 1

(***************************************************************************)
(* C15. Cross-subscription isolation: a step in which a consumer loop      *)
(* meets a failure (it ends as FAILED, or it processes a delivery that     *)
(* does not decode or whose handler raised) changes nothing of any other   *)
(* consumer loop: its state, its position, its queue, its deliveries, its  *)
(* handler invocations and its task stay as they are, so the other loops   *)
(* stay RUNNING and go on with their own messages.                         *)
(***************************************************************************)
LoopView(t) ==
    <<loopState[t], loopPc[t], cur[t], queue[t], handled[t], t \in tasks,
      subState[t], {<<d, deliveries[d]>> : d \in {e \in DeliveryIds : deliveries[e].sub = t}}>>

FailureStep(s) ==
    \/ loopState[s] = "RUNNING" /\ loopState'[s] = "FAILED"
    \/ \E d \in DeliveryIds :
        /\ deliveries[d].sub = s
        /\ deliveries'[d] # deliveries[d]
        /\ Malformed(d) \/ deliveries'[d].handler = "raised"

C15_Step ==
    \A s, t \in Subs :
        s # t /\ FailureStep(s) => LoopView(t)' = LoopView(t)

C15_CrossSubscriptionIsolation == [][C15_Step]_vars

\* the handler of loop 1 raised and loop 1 then ended as FAILED; loop 2 is
\* RUNNING and has had a later message acknowledged
C15_Witness ==
    /\ NumSubs >= 2
    /\ loopState[1] = "FAILED"
    /\ Running(2) /\ 2 \in tasks
    /\ \E d, e \in DeliveryIds :
        /\ d < e
        /\ deliveries[d].sub = 1 /\ deliveries[d].handler = "raised"
        /\ deliveries[e].sub = 2 /\ deliveries[e].disp = "ack"

(***************************************************************************)
(* Vocabulary of the publisher properties.                                 *)
(***************************************************************************)
PublishDone(c) == pubCalls[c].st = "done"

PublishFailed(c) == PublishDone(c) /\ pubCalls[c].error # "none"

\* the step is the one in which publish_event call c is made and runs to its
\* first await or to its end
PublishEventStep(c) == pubCalls[c].st = "todo" /\ pubCalls'[c].st # "todo"

(***************************************************************************)
(* C16. Publish returns the broker acknowledgment: a publish whose         *)
(* round-trip succeeded (js.publish returned a PubAck) ends without error  *)
(* and hands to its caller that acknowledgment, with the stream name and   *)
(* the sequence number the broker assigned.                                *)
(***************************************************************************)
C16_PublishReturnsAck ==
    \A c \in Publishes :
        PublishDone(c) /\ pubCalls[c].ack # NoAck =>
            /\ pubCalls[c].error = "none"
            /\ pubCalls[c].result = pubCalls[c].ack

(***************************************************************************)
(* C17. Publish failures are never silently dropped: a publish that ended  *)
(* with an error was raised to its caller when the caller ran it to        *)
(* completion, and was logged by the done callback when it ran as a        *)
(* background task; a publish without a result has one or the other.       *)
(***************************************************************************)
C17_PublishFailuresSurface ==
    \A c \in Publishes :
        /\ PublishFailed(c) =>
            /\ pubCalls[c].mode = "run" => pubCalls[c].raised
            /\ pubCalls[c].mode = "task" => pubCalls[c].observed
        /\ PublishDone(c) /\ pubCalls[c].result = "none" =>
            pubCalls[c].raised \/ pubCalls[c].observed
        /\ PublishDone(c) /\ pubCalls[c].ack = NoAck => PublishFailed(c)

\* a background publish got no PubAck: _publish_async logged nothing, the
\* done callback did; and a publish run by its caller raised a connect error
C17_Witness ==
    \E b, c \in Publishes :
        /\ pubCalls[b].mode = "task"
        /\ PublishDone(b)
        /\ pubCalls[b].error = "RuntimeError"
        /\ ~pubCalls[b].logged /\ pubCalls[b].observed
        /\ pubCalls[c].mode = "run"
        /\ pubCalls[c].error = "NoServersError"
        /\ pubCalls[c].logged /\ pubCalls[c].raised

(***************************************************************************)
(* C18. Publisher connect is idempotent: a publish that finds a connected  *)
(* connection cached goes on to js.publish without connecting, and the     *)
(* step leaves the cached connection and the JetStream context as they     *)
(* are; a connection is established only by a call that found no cached    *)
(* connection or a cached one that was not connected.                      *)
(***************************************************************************)
C18_State ==
    \A c \in Publishes :
        /\ pubCalls[c].st = "connect" => ~pubCalls[c].healthy
        /\ pubCalls[c].healthy => pubCalls[c].st = "publish"

C18_Step ==
    /\ \A c \in Publishes :
        PublishEventStep(c) =>
            /\ pubNc' = pubNc /\ pubJs' = pubJs /\ pubConns' = pubConns
            /\ pubCalls'[c].healthy => pubNc # 0 /\ pubCalls'[c].st = "publish"
    /\ pubConns' # pubConns =>
        /\ pubConns' = pubConns + 1
        /\ \E c \in Publishes :
            /\ pubCalls[c].st = "connect" /\ ~pubCalls[c].healthy
            /\ pubCalls'[c].st = "publish"

C18_PublisherConnectIdempotent == []C18_State /\ [][C18_Step]_vars

\* the second publish found the connection of the first one cached and
\* connected, and is publishing on it
C18_Witness ==
    /\ MaxPublishes >= 2
    /\ PublishDone(1) /\ pubCalls[1].error = "none"
    /\ pubCalls[2].st = "publish" /\ pubCalls[2].healthy
    /\ pubConns = 1
    /\ pubNc = 1

(***************************************************************************)
(* C19. Publisher close is idempotent: no connection of the publisher is   *)
(* closed more than once; a close() called without a cached connection     *)
(* changes nothing and raises nothing; after a close() the cached          *)
(* connection is never a closed one, so a publish that follows connects    *)
(* anew.                                                                   *)
(***************************************************************************)
C19_State ==
    /\ \A k \in Publishes : pubConnClosed[k] <= 1
    /\ pubNc # 0 => pubConnClosed[pubNc] = 0
    /\ pubNc = pubJs

C19_Step ==
    /\ pubClose.st = "idle" /\ pubClose' # pubClose /\ pubNc = 0 =>
        /\ pubClose' = [st |-> "idle", conn |-> 0, last |-> "noop"]
        /\ UNCHANGED <<pubNc, pubJs, pubCalls, pubConns, pubConnClosed, pubSeq>>
    /\ pubClose.st = "closing" /\ pubClose'.st = "idle" /\ pubClose'.last = "closed" =>
        /\ pubNc' = 0 /\ pubJs' = 0
        /\ pubConnClosed'[pubClose.conn] = pubConnClosed[pubClose.conn] + 1
    /\ \A c \in Publishes :
        PublishEventStep(c) /\ pubNc = 0 =>
            /\ pubCalls'[c].st \in {"connect", "done"}
            /\ pubCalls'[c].st = "done" =>
                pubCalls'[c].error \in {"ValueError", "EncodeError"}

C19_PublisherCloseIdempotent == []C19_State /\ [][C19_Step]_vars

\* the first connection was closed once, a further close() was a no-op, and
\* the publish that followed established a second connection
C19_Witness ==
    /\ pubConnClosed[1] = 1
    /\ pubClose.last = "noop"
    /\ pubConns = 2
    /\ pubNc = 2
    /\ pubConnClosed[2] = 0

(***************************************************************************)
(* C20. Empty subject is rejected before any I/O: a publish with an empty  *)
(* subject ends at once with the invalid-subject error (ValueError); its   *)
(* envelope is not encoded, no connection is made and nothing is sent, and *)
(* the step leaves the connection state of the publisher unchanged.        *)
(***************************************************************************)
C20_State ==
    \A c \in Publishes :
        pubCalls[c].st # "todo" /\ ~pubCalls[c].subjectOk =>
            /\ PublishDone(c)
            /\ pubCalls[c].error = "ValueError"
            /\ ~pubCalls[c].encoded
            /\ ~pubCalls[c].sent
            /\ pubCalls[c].ack = NoAck

C20_Step ==
    \A c \in Publishes :
        PublishEventStep(c) /\ ~pubCalls'[c].subjectOk =>
            UNCHANGED <<pubNc, pubJs, pubConns, pubConnClosed, pubSeq>>

C20_EmptySubjectRejected == []C20_State /\ [][C20_Step]_vars

\* a publish with an empty subject was rejected while a connection was
\* cached: the connection is still the cached one and nothing was published
C20_Witness ==
    \E c \in Publishes :
        /\ PublishDone(c)
        /\ ~pubCalls[c].subjectOk
        /\ pubCalls[c].error = "ValueError"
        /\ pubNc = 1 /\ pubConns = 1
        /\ pubSeq = 0

(***************************************************************************)
(* Vocabulary of the properties of the events table and of GET /events.    *)
(***************************************************************************)
RowIds == 1..Len(table)

Requested == response.status # 0

(***************************************************************************)
(* C21. Persisted required fields are never empty: every row written by    *)
(* an ingestion path (handle_event, the subscriber of run_nats_worker) has *)
(* a non-empty event_type, source, spec_version, subject and               *)
(* data_content_type.                                                      *)
(***************************************************************************)
C21_PersistedRequiredFieldsNonEmpty ==
    \A i \in RowIds : \A c \in Columns : table[i][c] # ""

C23_FilterModesExclusive ==
    Requested =>
        LET hasUser == HasUser(response.req.user_id)
            hasTags == HasTags(response.req.tags)
        IN
        /\ hasUser /\ hasTags =>
            /\ response.status = 400
            /\ response.mode = "none"
            /\ response.serviceCalls = 0 /\ response.queries = 0
        /\ ~hasUser /\ ~hasTags =>
            /\ response.status = 422
            /\ response.mode = "none"
            /\ response.serviceCalls = 0 /\ response.queries = 0
        /\ response.mode = "user_id" => hasUser /\ ~hasTags
        /\ response.mode = "tags" => hasTags /\ ~hasUser
        /\ response.mode = "none" => response.status \in {400, 422}
        /\ response.serviceCalls <= 1

\* a request with both parameters was rejected with 400 while the table
\* held a row
C23_Witness ==
    /\ Requested
    /\ HasUser(response.req.user_id) /\ HasTags(response.req.tags)
    /\ response.status = 400
    /\ Len(table) > 0

\* the last request was one in tags mode: tags given, user_id not
TagsModeRequest == Requested /\ FilterMode(HasUser(response.req.user_id),
                                           HasTags(response.req.tags)) = "tags"

\* the last request was answered with 400 before any query method was called
RejectedBeforeStore ==
    /\ response.status = 400
    /\ response.serviceCalls = 0
    /\ response.queries = 0
    /\ response.items = {}

(***************************************************************************)
(* C24, as claimed.  Invalid labels are rejected before the store is       *)
(* reached: a request in tags mode whose labels parameter is not valid     *)
(* JSON (the empty text included), or is valid JSON but no object, is      *)
(* answered with 400, and no query is built or executed.                   *)
(***************************************************************************)
C24_InvalidLabelsRejected ==
    TagsModeRequest /\ response.req.labels.kind \in {"empty", "malformed", "array"}
        => RejectedBeforeStore

(***************************************************************************)
(* C24, amended.  A request in tags mode whose labels parameter is a       *)
(* non-empty text that is not valid JSON, or is valid JSON but no object,  *)
(* is answered with 400, and no query is built or executed; an empty       *)
(* labels parameter is no label filter, and the request goes on to the     *)
(* query method like one without labels.                                   *)
(***************************************************************************)
C24_NonEmptyInvalidLabelsRejected ==
    /\ TagsModeRequest /\ response.req.labels.kind \in {"malformed", "array"}
        => RejectedBeforeStore
    /\ TagsModeRequest /\ response.req.labels.kind \in {"absent", "empty", "object"}
        => response.status # 400 /\ response.serviceCalls = 1

\* a tags request whose labels are a JSON array was rejected with 400 while
\* the table held a row with the requested tag
C24_Witness ==
    /\ TagsModeRequest
    /\ response.req.labels.kind = "array"
    /\ response.status = 400
    /\ \E i \in RowIds : Range(response.req.tags.values) \subseteq Range(table[i].tags)

(***************************************************************************)
(* C25. Tag filtering is contains-all: a GET /events request in tags mode  *)
(* with acceptable labels is answered with the page of exactly those rows  *)
(* of the table it read whose tags contain every requested tag, by         *)
(* equality of elements, and                                               *)
(* whose labels contain every requested key/value pair; a row with only    *)
(* some of the requested tags is not returned.                             *)
(***************************************************************************)
C25_TagFilteringContainsAll ==
    TagsModeRequest /\ LabelsCheck(response.req.labels.kind) # "reject" =>
        /\ response.status = 200
        /\ response.queries = 1
        /\ response.items =
            { i \in 1..response.rows :
                /\ \A t \in Range(response.req.tags.values) :
                    \E k \in 1..Len(table[i].tags) : table[i].tags[k] = t
                /\ \A pair \in response.req.labels.object :
                    pair \in table[i].labels }

(***************************************************************************)
(* C26. No acknowledgment without persistence: a delivery for which ack()  *)
(* was issued, or whose ack reached the broker, is one whose payload       *)
(* decoded and whose handler invocation returned without raising, having   *)
(* committed its row; a delivery whose handler raised, or whose payload    *)
(* did not decode, is never acknowledged.                                  *)
(***************************************************************************)
C26_NoAckWithoutPersistence ==
    \A d \in DeliveryIds :
        /\ deliveries[d].ack > 0 \/ deliveries[d].disp = "ack" =>
            /\ ~Malformed(d)
            /\ HandlerInvoked(d)
            /\ deliveries[d].handler = "ok"
            /\ deliveries[d].rows = 1
        /\ deliveries[d].handler = "raised" \/ (Malformed(d) /\ Pulled(d)) =>
            /\ deliveries[d].ack = 0
            /\ deliveries[d].disp # "ack"

\* a message whose handler raised after its commit was not acknowledged, and
\* its redelivery was acknowledged after the handler had committed a row
C26_Witness ==
    \E d, e \in DeliveryIds :
        /\ d < e
        /\ deliveries[d].msg = deliveries[e].msg
        /\ deliveries[d].handler = "raised" /\ deliveries[d].rows = 1
        /\ deliveries[d].disp = "nak"
        /\ deliveries[e].handler = "ok" /\ deliveries[e].rows = 1
        /\ deliveries[e].disp = "ack"

(***************************************************************************)
(* C27. No redelivery request after success: a delivery whose handler      *)
(* invocation returned without raising (its row is committed) gets no      *)
(* nak() from the consumer loop, also when the ack() that follows the      *)
(* handler fails.                                                          *)
(***************************************************************************)
C27_NoNakAfterSuccess ==
    \A d \in DeliveryIds :
        deliveries[d].handler = "ok" =>
            /\ deliveries[d].nak = 0
            /\ deliveries[d].disp # "nak"

\* the handler invocations made for delivery d
InvocationsOf(d) ==
    {k \in 1..Len(handled[deliveries[d].sub]) : handled[deliveries[d].sub][k].d = d}

(***************************************************************************)
(* C28. Single disposition per delivery: for every delivery a loop pulled, *)
(* once one of ack, nak and term has completed the loop issues nothing     *)
(* more for it, so at most one of them completes; each is issued at most   *)
(* once, and two are issued only as a nak() after an ack() that failed;    *)
(* the handler is invoked at most once; term() is never issued for a       *)
(* payload that decoded.                                                   *)
(***************************************************************************)
C28_SingleDisposition ==
    \A d \in DeliveryIds :
        LET r == deliveries[d] IN
        /\ r.ack <= 1 /\ r.nak <= 1 /\ r.term <= 1
        /\ r.ack + r.nak + r.term <= 2
        /\ r.ack + r.nak + r.term = 2 =>
            r.ack = 1 /\ r.nak = 1 /\ r.disp # "ack"
        /\ r.disp # "none" =>
            /\ cur[r.sub] # d
            /\ r.status \in {"done", "interrupted"}
            /\ (IF r.disp = "ack" THEN r.ack ELSE IF r.disp = "nak" THEN r.nak
                ELSE r.term) = 1
        /\ r.disp = "ack" => r.nak = 0 /\ r.term = 0
        /\ r.disp = "term" => r.ack = 0 /\ r.nak = 0
        /\ r.disp = "nak" => r.term = 0
        /\ Cardinality(InvocationsOf(d)) <= 1
        /\ r.term > 0 => Malformed(d) /\ InvocationsOf(d) = {}

\* for one delivery an ack() failed and the nak() that followed completed;
\* for another one, of a payload that did not decode, term() completed
C28_Witness ==
    \E d, e \in DeliveryIds :
        /\ deliveries[d].ack = 1 /\ deliveries[d].nak = 1
        /\ deliveries[d].disp = "nak"
        /\ Cardinality(InvocationsOf(d)) = 1
        /\ Malformed(e) /\ deliveries[e].disp = "term"

(***************************************************************************)
(* C29. Manual-ack mode leaves success undisposed: on a subscription       *)
(* registered with auto_ack = False, a delivery whose handler returned     *)
(* without raising gets no ack(), nak() or term() from the consumer loop   *)
(* and its processing ends there; a payload that does not decode is still  *)
(* terminated, and a handler failure is still negatively acknowledged.     *)
(***************************************************************************)
C29_ManualAckLeavesSuccessUndisposed ==
    \A d \in DeliveryIds :
        LET r == deliveries[d] IN
        ~autoAck[r.sub] /\ Pulled(d) =>
            /\ r.handler = "ok" =>
                /\ r.ack = 0 /\ r.nak = 0 /\ r.term = 0
                /\ r.disp = "none"
                /\ r.status = "done"
                /\ cur[r.sub] # d
            /\ Malformed(d) => r.term = 1 /\ r.ack = 0 /\ r.nak = 0
            /\ r.handler = "raised" => r.nak = 1 /\ r.ack = 0 /\ r.term = 0

\* on a manual-ack subscription one delivery was handled and left without
\* disposition, a poison message was terminated and a failed one was
\* negatively acknowledged
C29_Witness ==
    \E d, e, f \in DeliveryIds :
        /\ ~autoAck[deliveries[d].sub]
        /\ deliveries[e].sub = deliveries[d].sub
        /\ deliveries[f].sub = deliveries[d].sub
        /\ deliveries[d].handler = "ok" /\ Completed(d)
        /\ deliveries[d].disp = "none"
        /\ Malformed(e) /\ deliveries[e].disp = "term"
        /\ deliveries[f].handler = "raised" /\ deliveries[f].disp = "nak"

\* message m (named by its first delivery) was delivered and is well-formed
WellFormedMessage(m) ==
    /\ m \in DeliveryIds
    /\ deliveries[m].msg = m
    /\ ~Malformed(m)

\* an ack() of the loop completed for a delivery of message m
Acknowledged(m) ==
    \E d \in DeliveryIds : deliveries[d].msg = m /\ deliveries[d].disp = "ack"

\* every well-formed delivery the loop pulled had an ack() or a nak() issued
PulledIsDisposed ==
    \A d \in DeliveryIds :
        Pulled(d) /\ ~Malformed(d) => deliveries[d].ack + deliveries[d].nak >= 1

\* every well-formed message delivered so far has been acknowledged
AllAcknowledged ==
    \A m \in DeliveryIds : WellFormedMessage(m) => Acknowledged(m)

LoopNeverFails == [](\A t \in 1..ShippedRegistrySize : loopState[t] # "FAILED")

NoCloseYet == cpc = "idle" /\ closeResult = "none"

Registered(s) == subState[s] = "active"

Drained(s) == s \in tasks /\ Running(s)

(***************************************************************************)
(* C31 as claimed.  Every registered subscription is being drained: before *)
(* close(), every subscription of the subscription list has a live         *)
(* consumer loop task in the task set, and no subscription is registered   *)
(* with the broker while its consumer loop has terminated.                 *)
(***************************************************************************)
C31_EverySubscriptionDrained ==
    NoCloseYet =>
        /\ \A s \in Subs : InSubscriptions(s) => Drained(s)
        /\ \A s \in Subs : Registered(s) => Running(s)

(***************************************************************************)
(* C31 as amended.  Before close(), every subscription of the subscription *)
(* list has a live consumer loop task in the task set unless its loop has  *)
(* terminated as FAILED; a subscription is registered with the broker      *)
(* while its loop has terminated only when the loop FAILED; the task set   *)
(* holds the tasks of the running loops of the list and no others.         *)
(***************************************************************************)
C31_EverySubscriptionDrainedUnlessFailed ==
    NoCloseYet =>
        /\ \A s \in Subs :
            InSubscriptions(s) =>
                \/ Drained(s)
                \/ loopState[s] = "FAILED" /\ s \notin tasks
        /\ \A s \in Subs :
            Registered(s) =>
                /\ InSubscriptions(s)
                /\ loopState[s] \in {"RUNNING", "FAILED"}
        /\ \A t \in tasks : InSubscriptions(t) /\ Running(t)

\* before any close(), two subscriptions are in the list and registered: the
\* loop of one has FAILED and left the task set, the other one is drained
C31_Witness ==
    /\ NoCloseYet
    /\ \E s, t \in Subs :
        /\ InSubscriptions(s) /\ InSubscriptions(t)
        /\ Registered(s) /\ Registered(t)
        /\ loopState[s] = "FAILED" /\ s \notin tasks
        /\ Drained(t)

(***************************************************************************)
(* C32. Single connection under concurrent use: whatever the interleaving  *)
(* of the publishes of one NatsPublisher, and of the subscribe() calls of  *)
(* one NatsSubscriber, that start from the unconnected state, each of the  *)
(* two objects establishes at most one connection, and every connection    *)
(* it has established is the one it has cached or has been closed.         *)
(***************************************************************************)
C32_SingleConnectionUnderConcurrentUse ==
    /\ pubConns <= 1
    /\ \A k \in 1..pubConns : k = pubNc \/ pubConnClosed[k] > 0
    /\ conns <= 1
    /\ \A k \in 1..conns : k = nc \/ connClosed[k] > 0

(***************************************************************************)
(* Vocabulary of C33: the last close() has returned and no subscribe()     *)
(* call is in progress (every call was made before a close() returned).    *)
(***************************************************************************)
SubscribeInProgress(i) == call[i].st \in {"connect", "jssub"}

ClosedAndQuiet ==
    /\ cpc = "idle"
    /\ closeResult = "ok"
    /\ \A i \in Subs : ~SubscribeInProgress(i)

(***************************************************************************)
(* C33. Nothing survives close: whatever the interleaving of subscribe()   *)
(* and close() calls on one NatsSubscriber, once close() has returned and  *)
(* no subscribe() call is in progress, no consumer loop is running, the    *)
(* task set and the subscription list are empty, and the subscriber holds  *)
(* no subscription and no loop on a connection that was closed.            *)
(***************************************************************************)
C33_NothingSurvivesClose ==
    ClosedAndQuiet =>
        /\ \A t \in Subs : ~Running(t)
        /\ tasks = {}
        /\ subscriptions = <<>>
        /\ \A s \in Subs :
            InSubscriptions(s) \/ s \in tasks \/ Running(s) =>
                connClosed[subConn[s]] = 0

=============================================================================
